---- MODULE Spec2Model ----
(***************************************************************************)
(* create-web-extension: the CLI action (src/src/index.js 16-52), the      *)
(* prompt sequence (54-114) and the generator createExtension with its     *)
(* helpers (865-1953), run against a small model of the filesystem.        *)
(*                                                                         *)
(* A JavaScript object is a function whose DOMAIN is the set of keys that  *)
(* are present: options.react === undefined is "react" \notin DOMAIN.      *)
(* A string the code inspects character by character (the project name)    *)
(* is a sequence of one-character strings.  A path is the sequence of its  *)
(* segments, relative to projectPath.                                      *)
(***************************************************************************)
EXTENDS Integers, Sequences, FiniteSets, TLC

\* the generator: the CLI action and createExtension
VARIABLES pc, targetDir, options, questions, answers, promptError,
          projectPath, fs, log, console, exitCode, intermediate

\* the scripts of the generated extension, running in the browser
VARIABLES stored, countBefore, handlers, ports

generatorVars == <<pc, targetDir, options, questions, answers, promptError,
                   projectPath, fs, log, console, exitCode, intermediate>>

templateVars == <<stored, countBefore, handlers, ports>>

vars == <<pc, targetDir, options, questions, answers, promptError,
          projectPath, fs, log, console, exitCode, intermediate,
          stored, countBefore, handlers, ports>>

---------------------------------------------------------------------------
(* Bounds of the model *)

\* longest project name typed on the command line or at the prompt
MaxNameLen == 1

\* how many of the checkbox choices (from the top of the list) the user toggles
NumCandidates == 3

\* how many times the increment button of the popup is clicked
MaxClicks == 2

\* the characters project names are typed from: one the pattern accepts,
\* a space and a path separator
NameChars == {"a", " ", "/"}

RECURSIVE NamesOfLen(_)
NamesOfLen(n) ==
  IF n = 0 THEN {<<>>}
  ELSE {Append(s, c) : s \in NamesOfLen(n - 1), c \in NameChars}

\* a name with a directory in front of it: a/a
NestedName == <<"a", "/", "a">>

\* every string of at most MaxNameLen characters, the empty string included,
\* and the nested name
Names == UNION {NamesOfLen(n) : n \in 0..MaxNameLen} \cup {NestedName}

---------------------------------------------------------------------------
(* JavaScript values *)

None == <<>>
Some(x) == <<x>>

Has(obj, key) == key \in DOMAIN obj

\* if (obj.key) for a boolean-or-undefined property
Truthy(obj, key) == Has(obj, key) /\ obj[key]

\* { ...a, ...b }: the keys of b override those of a
Spread(a, b) == [k \in DOMAIN a \cup DOMAIN b |-> IF k \in DOMAIN b THEN b[k] ELSE a[k]]

---------------------------------------------------------------------------
(* The project-name pattern /^([A-Za-z\-_\d])+$/ *)

Letters ==
  {"a","b","c","d","e","f","g","h","i","j","k","l","m",
   "n","o","p","q","r","s","t","u","v","w","x","y","z",
   "A","B","C","D","E","F","G","H","I","J","K","L","M",
   "N","O","P","Q","R","S","T","U","V","W","X","Y","Z"}

Digits == {"0","1","2","3","4","5","6","7","8","9"}

NameCharClass == Letters \cup {"-", "_"} \cup Digits

\* one or more characters of the class, anchored at both ends
NamePatternTest(input) ==
  /\ Len(input) >= 1
  /\ \A i \in 1..Len(input) : input[i] \in NameCharClass

ValidateMessage == "Project name may only include letters, numbers, underscores and hashes."

\* validate: "" stands for true, anything else is the message shown
validate(input) == IF NamePatternTest(input) THEN "" ELSE ValidateMessage

DefaultName == <<"m","y","-","w","e","b","-","e","x","t","e","n","s","i","o","n">>

\* an input question with a default answers the default on an empty line
InputAnswer(typed) == IF typed = <<>> THEN DefaultName ELSE typed

---------------------------------------------------------------------------
(* The checkbox question *)

Candidates == <<"storage", "tabs", "activeTab", "contextMenus", "notifications", "webRequest">>

\* the choices ticked when the question appears
CheckedByDefault == {"storage", "activeTab"}

Toggleable == {Candidates[i] : i \in 1..(IF NumCandidates < Len(Candidates) THEN NumCandidates ELSE Len(Candidates))}

\* a checkbox answers the ticked choices in the order of the list
CheckboxAnswer(ticked) ==
  LET Test(c) == c \in ticked IN SelectSeq(Candidates, Test)

PermissionAnswers ==
  {CheckboxAnswer((CheckedByDefault \ Toggleable) \cup t) : t \in SUBSET Toggleable}

---------------------------------------------------------------------------
(* Paths *)

\* process.cwd()
Cwd == << <<"w">> >>

\* the segments of a typed path: split at "/", empty segments dropped
RECURSIVE SplitPath(_, _, _)
SplitPath(t, i, cur) ==
  IF i > Len(t) THEN (IF cur = <<>> THEN <<>> ELSE <<cur>>)
  ELSE IF t[i] = "/"
       THEN (IF cur = <<>> THEN <<>> ELSE <<cur>>) \o SplitPath(t, i + 1, <<>>)
       ELSE SplitPath(t, i + 1, Append(cur, t[i]))

\* path.resolve(process.cwd(), targetDir): an absolute targetDir replaces cwd
PathResolve(cwd, t) ==
  IF t # <<>> /\ t[1] = "/" THEN SplitPath(t, 1, <<>>) ELSE cwd \o SplitPath(t, 1, <<>>)

\* PathBasename taking the first segment
PathBasenameHead(p) == IF p = <<>> THEN <<>> ELSE p[1]

\* path.basename of an absolute path ("" for the root)
PathBasename(p) == IF p = <<>> THEN <<>> ELSE p[Len(p)]

Prefix(p, n) == SubSeq(p, 1, n)
Parent(p) == Prefix(p, Len(p) - 1)

---------------------------------------------------------------------------
(* The filesystem below projectPath: path -> entry; an absent path is not  *)
(* in the DOMAIN.  <<>> is projectPath itself.                             *)

DirEntry == [kind |-> "dir", tag |-> "", data |-> <<>>]
FileEntry(tag, data) == [kind |-> "file", tag |-> tag, data |-> data]

IsDir(f, p) == p \in DOMAIN f /\ f[p].kind = "dir"
IsFile(f, p) == p \in DOMAIN f /\ f[p].kind = "file"

\* what the target directory holds before the run
PreAbsent == <<>>
PreEmpty == (<<>> :> DirEntry)
PreStale ==
  (<<>> :> DirEntry) @@ (<<"README.md">> :> FileEntry("stale", <<>>))
                     @@ (<<"notes.txt">> :> FileEntry("stale", <<>>))
PreBlocked == (<<>> :> DirEntry) @@ (<<"src">> :> FileEntry("stale", <<>>))
PreExisting == {PreAbsent, PreEmpty, PreStale, PreBlocked}

\* filesystem operations the generator issues
EnsureDir(p) == [op |-> "ensureDir", path |-> p, tag |-> "", data |-> <<>>]
Readdir(p) == [op |-> "readdir", path |-> p, tag |-> "", data |-> <<>>]
WriteFile(p, tag, data) == [op |-> "writeFile", path |-> p, tag |-> tag, data |-> data]
WriteJSON(p, tag, data) == [op |-> "writeJSON", path |-> p, tag |-> tag, data |-> data]

\* EnsureDirOk as a plain mkdir: an existing directory is an error too
EnsureDirOkExclusive(f, p) ==
  p \notin DOMAIN f /\ \A n \in 0..Len(p) : ~IsFile(f, Prefix(p, n))

\* fs.ensureDir is mkdir -p: it fails when the path or an ancestor is a file
EnsureDirOk(f, p) == \A n \in 0..Len(p) : ~IsFile(f, Prefix(p, n))
EnsureDirResult(f, p) ==
  [q \in DOMAIN f \cup {Prefix(p, n) : n \in 0..Len(p)} |->
     IF \E n \in 0..Len(p) : q = Prefix(p, n) THEN DirEntry ELSE f[q]]

\* fs.writeFile / fs.writeJSON create or replace a file in an existing
\* directory; they fail on a missing parent and on a directory at the path
WriteOk(f, p) == IsDir(f, Parent(p)) /\ ~IsDir(f, p)
WriteResult(f, p, tag, data) ==
  (p :> FileEntry(tag, data)) @@ f

\* one operation on filesystem f: its error code ("" when it succeeds) and
\* what f becomes
ApplyOp(f, o) ==
  CASE o.op = "ensureDir" ->
         IF EnsureDirOk(f, o.path) THEN [err |-> "", fs |-> EnsureDirResult(f, o.path)]
         ELSE [err |-> IF IsFile(f, o.path) THEN "EEXIST" ELSE "ENOTDIR", fs |-> f]
    [] o.op = "readdir" ->
         [err |-> IF IsDir(f, o.path) THEN "" ELSE "ENOENT", fs |-> f]
    [] OTHER ->
         IF WriteOk(f, o.path) THEN [err |-> "", fs |-> WriteResult(f, o.path, o.tag, o.data)]
         ELSE [err |-> IF IsDir(f, o.path) THEN "EISDIR"
                       ELSE IF IsFile(f, Parent(o.path)) THEN "ENOTDIR" ELSE "ENOENT",
               fs |-> f]

\* fs.readdir(projectPath): the names directly below the root
DirContents(f) == {p \in DOMAIN f : Len(p) = 1}

\* the record of one operation issued: what was written where (tag names the
\* template, data the values substituted into it); err is "" when it succeeded
LogEntry(o, err) ==
  [op |-> o.op, path |-> o.path, tag |-> o.tag, data |-> o.data, err |-> err]

\* the error of an operation that fails for a reason outside the model
\* (permission denied, disk full)
EnvError == "EACCES"

\* one awaited operation on st = [fs, log, failed]; `injected` makes it fail
\* with EnvError
Attempt(st, o, injected) ==
  LET r == IF injected THEN [err |-> EnvError, fs |-> st.fs] ELSE ApplyOp(st.fs, o)
  IN [fs |-> r.fs, log |-> Append(st.log, LogEntry(o, r.err)), failed |-> r.err # ""]

\* Outcomes with the rejection swallowed: the operations after a failed one
\* are still issued
RECURSIVE RunRest(_, _, _)
RunRest(ops, i, st) ==
  IF i > Len(ops) THEN st ELSE RunRest(ops, i + 1, Attempt(st, ops[i], FALSE))

RECURSIVE OutcomesSwallowingErrors(_, _, _)
OutcomesSwallowingErrors(ops, i, st) ==
  IF i > Len(ops) THEN <<st>>
  ELSE <<RunRest(ops, i + 1, Attempt(st, ops[i], TRUE))>>
       \o OutcomesSwallowingErrors(ops, i + 1, Attempt(st, ops[i], FALSE))

\* The states in which the awaited operations ops[i..], issued in order from
\* st, can end: each operation may fail, and a rejected await throws, so
\* nothing after it runs.  The last element is the run that nothing interrupts.
RECURSIVE Outcomes(_, _, _)
Outcomes(ops, i, st) ==
  IF i > Len(ops) \/ st.failed THEN <<st>>
  ELSE <<Attempt(st, ops[i], TRUE)>> \o Outcomes(ops, i + 1, Attempt(st, ops[i], FALSE))

Run(ops, f, l) == Outcomes(ops, 1, [fs |-> f, log |-> l, failed |-> FALSE])

---------------------------------------------------------------------------
(* createProjectStructure *)

\* directories with scripts beside the project instead of inside it
directoriesWithScriptsBeside ==
  << <<"src">>, <<"src", "background">>, <<"src", "popup">>, <<"src", "options">>,
     <<"src", "content">>, <<"src", "assets">>, <<"src", "assets", "icons">>,
     <<"..", "scripts">> >>

directories ==
  << <<"src">>, <<"src", "background">>, <<"src", "popup">>, <<"src", "options">>,
     <<"src", "content">>, <<"src", "assets">>, <<"src", "assets", "icons">>,
     <<"scripts">> >>

createProjectStructureOps ==
  [i \in 1..Len(directories) |-> EnsureDir(directories[i])]
  \o << WriteFile(<<"scripts", "setup-instructions.js">>, "setupInstructionsScript", <<>>) >>

---------------------------------------------------------------------------
(* createManifestFile *)

\* IconMap without the 48-pixel entry
IconMapWithoutMedium ==
  [s \in {"16", "128"} |->
     IF s = "16" THEN "assets/icons/icon16.png" ELSE "assets/icons/icon128.png"]

IconMap ==
  [s \in {"16", "48", "128"} |->
     CASE s = "16" -> "assets/icons/icon16.png"
       [] s = "48" -> "assets/icons/icon48.png"
       [] OTHER -> "assets/icons/icon128.png"]

ToolbarAction == [default_popup |-> "popup.html", default_icon |-> IconMap]

DefaultPermissions == <<"storage", "activeTab">>

\* manifestVersion === 3
IsManifestV3(opts) == Has(opts, "manifestVersion") /\ opts.manifestVersion = 3

\* ManifestPermissions always granting the default pair first
ManifestPermissionsWithDefaults(opts) ==
  IF Has(opts, "permissions") THEN DefaultPermissions \o opts.permissions
  ELSE DefaultPermissions

\* permissions || ["storage", "activeTab"]: undefined is falsy, every array
\* (the empty one too) is truthy
ManifestPermissions(opts) ==
  IF Has(opts, "permissions") THEN opts.permissions ELSE DefaultPermissions

\* Manifest with the version-2 branch still naming its toolbar key "action"
ManifestActionInBothBranches(path, opts) ==
  Spread(
    Spread([name |-> PathBasename(path),
            description |-> "A Chrome extension created with create-web-extension",
            version |-> "1.0.0"],
           IF IsManifestV3(opts)
           THEN [manifest_version |-> 3,
                 action |-> ToolbarAction,
                 background |-> [service_worker |-> "background.js"]]
           ELSE [manifest_version |-> 2,
                 action |-> ToolbarAction,
                 background |-> [scripts |-> <<"background.js">>, persistent |-> FALSE]]),
    [permissions |-> ManifestPermissions(opts),
     options_page |-> "options.html",
     icons |-> IconMap,
     content_scripts |-> << [matches |-> <<"<all_urls>">>, js |-> <<"content.js">>] >>])

\* the manifest object, keys in the order the code sets them
Manifest(path, opts) ==
  Spread(
    Spread([name |-> PathBasename(path),
            description |-> "A Chrome extension created with create-web-extension",
            version |-> "1.0.0"],
           IF IsManifestV3(opts)
           THEN [manifest_version |-> 3,
                 action |-> ToolbarAction,
                 background |-> [service_worker |-> "background.js"]]
           ELSE [manifest_version |-> 2,
                 browser_action |-> ToolbarAction,
                 background |-> [scripts |-> <<"background.js">>, persistent |-> FALSE]]),
    [permissions |-> ManifestPermissions(opts),
     options_page |-> "options.html",
     icons |-> IconMap,
     content_scripts |-> << [matches |-> <<"<all_urls>">>, js |-> <<"content.js">>] >>])

createManifestFileOps(path, opts) ==
  << WriteJSON(<<"src", "manifest.json">>, "manifest", Manifest(path, opts)),
     WriteJSON(<<"manifest.json">>, "manifest", Manifest(path, opts)),
     WriteFile(<<".gitignore">>, "gitignoreContent", <<>>) >>

---------------------------------------------------------------------------
(* createSourceFiles and the helpers it calls *)

\* const extension = typescript ? 'ts' : 'js'
extension(opts) == IF Truthy(opts, "typescript") THEN "ts" ELSE "js"

\* jsxExtension ignoring typescript
jsxExtensionUntyped(opts) == "jsx"

\* const jsxExtension = typescript ? 'tsx' : 'jsx'
jsxExtension(opts) == IF Truthy(opts, "typescript") THEN "tsx" ELSE "jsx"

\* `index.${ext}`
IndexFile(ext) ==
  CASE ext = "ts" -> "index.ts"
    [] ext = "tsx" -> "index.tsx"
    [] ext = "jsx" -> "index.jsx"
    [] OTHER -> "index.js"

\* the comment line of the background script
BackgroundComment(opts) ==
  IF IsManifestV3(opts) THEN "// Service worker for Manifest V3"
  ELSE "// Background page for Manifest V2"

\* the id attributes of the elements of an HTML template
ElementIds(tag) ==
  CASE tag = "popupHtml" -> {"popup-root"}
    [] tag = "optionsHtml" -> {"options-root"}
    [] tag \in {"directPopupHtml", "updatedPopupHtml"} -> {"popup-root", "count", "increment"}
    [] tag \in {"directOptionsHtml", "updatedOptionsHtml"} ->
         {"options-root", "enabled", "theme", "save", "status"}
    [] OTHER -> {}

\* the ids a script template passes to document.getElementById
LookedUpIds(tag) ==
  CASE tag = "popupJs" -> {"count", "increment"}
    [] tag = "optionsJs" -> {"enabled", "theme", "save", "status"}
    [] tag = "popupReact" -> {"popup-root"}
    [] tag = "optionsReact" -> {"options-root"}
    [] OTHER -> {}

\* the script templates that import react and react-dom
ImportsReact(tag) == tag \in {"popupReact", "optionsReact"}

createHtmlFilesOps ==
  << WriteFile(<<"src", "popup", "index.html">>, "popupHtml", <<>>),
     WriteFile(<<"src", "options", "index.html">>, "optionsHtml", <<>>),
     WriteFile(<<"popup.html">>, "popupHtml", <<>>),
     WriteFile(<<"options.html">>, "optionsHtml", <<>>) >>

\* createUIFilesOps with the react branch leaving popup.html and options.html
\* as createHtmlFiles wrote them
createUIFilesOpsReactKeepsPlaceholders(opts) ==
  << WriteFile(<<"src", "popup", "index.css">>, "popupCss", <<>>),
     WriteFile(<<"src", "options", "index.css">>, "optionsCss", <<>>),
     WriteFile(<<"popup.css">>, "popupCss", <<>>),
     WriteFile(<<"options.css">>, "optionsCss", <<>>) >>
  \o
  IF Truthy(opts, "react")
  THEN << WriteFile(<<"src", "popup", IndexFile(jsxExtension(opts))>>, "popupReact", <<>>),
          WriteFile(<<"src", "options", IndexFile(jsxExtension(opts))>>, "optionsReact", <<>>),
          WriteFile(<<"popup.js">>, "popupJs", <<>>),
          WriteFile(<<"options.js">>, "optionsJs", <<>>) >>
  ELSE << WriteFile(<<"src", "popup", "index.html">>, "updatedPopupHtml", <<>>),
          WriteFile(<<"src", "options", "index.html">>, "updatedOptionsHtml", <<>>),
          WriteFile(<<"src", "popup", IndexFile(extension(opts))>>, "popupJs", <<>>),
          WriteFile(<<"src", "options", IndexFile(extension(opts))>>, "optionsJs", <<>>),
          WriteFile(<<"popup.js">>, "popupJs", <<>>),
          WriteFile(<<"options.js">>, "optionsJs", <<>>),
          WriteFile(<<"popup.html">>, "directPopupHtml", <<>>),
          WriteFile(<<"options.html">>, "directOptionsHtml", <<>>) >>

createUIFilesOps(opts) ==
  << WriteFile(<<"src", "popup", "index.css">>, "popupCss", <<>>),
     WriteFile(<<"src", "options", "index.css">>, "optionsCss", <<>>),
     WriteFile(<<"popup.css">>, "popupCss", <<>>),
     WriteFile(<<"options.css">>, "optionsCss", <<>>) >>
  \o
  IF Truthy(opts, "react")
  THEN << WriteFile(<<"src", "popup", IndexFile(jsxExtension(opts))>>, "popupReact", <<>>),
          WriteFile(<<"src", "options", IndexFile(jsxExtension(opts))>>, "optionsReact", <<>>),
          WriteFile(<<"popup.js">>, "popupJs", <<>>),
          WriteFile(<<"options.js">>, "optionsJs", <<>>),
          WriteFile(<<"popup.html">>, "directPopupHtml", <<>>),
          WriteFile(<<"options.html">>, "directOptionsHtml", <<>>) >>
  ELSE << WriteFile(<<"src", "popup", "index.html">>, "updatedPopupHtml", <<>>),
          WriteFile(<<"src", "options", "index.html">>, "updatedOptionsHtml", <<>>),
          WriteFile(<<"src", "popup", IndexFile(extension(opts))>>, "popupJs", <<>>),
          WriteFile(<<"src", "options", IndexFile(extension(opts))>>, "optionsJs", <<>>),
          WriteFile(<<"popup.js">>, "popupJs", <<>>),
          WriteFile(<<"options.js">>, "optionsJs", <<>>),
          WriteFile(<<"popup.html">>, "directPopupHtml", <<>>),
          WriteFile(<<"options.html">>, "directOptionsHtml", <<>>) >>

iconSizes == <<"16", "48", "128">>

\* `icon${size}.png`, `icon${size}.svg`
IconFile(size, suffix) ==
  CASE size = "16" /\ suffix = "png" -> "icon16.png"
    [] size = "48" /\ suffix = "png" -> "icon48.png"
    [] size = "128" /\ suffix = "png" -> "icon128.png"
    [] size = "16" /\ suffix = "svg" -> "icon16.svg"
    [] size = "48" /\ suffix = "svg" -> "icon48.svg"
    [] OTHER -> "icon128.svg"

\* IconLoop without the copy below the root
RECURSIVE IconLoopSrcOnly(_, _, _)
IconLoopSrcOnly(i, suffix, tag) ==
  IF i > Len(iconSizes) THEN <<>>
  ELSE << WriteFile(<<"src", "assets", "icons", IconFile(iconSizes[i], suffix)>>, tag, iconSizes[i]) >>
       \o IconLoopSrcOnly(i + 1, suffix, tag)

\* the body of one for-loop over iconSizes: a write below src/ and one below the root
RECURSIVE IconLoop(_, _, _)
IconLoop(i, suffix, tag) ==
  IF i > Len(iconSizes) THEN <<>>
  ELSE << WriteFile(<<"src", "assets", "icons", IconFile(iconSizes[i], suffix)>>, tag, iconSizes[i]),
          WriteFile(<<"assets", "icons", IconFile(iconSizes[i], suffix)>>, tag, iconSizes[i]) >>
       \o IconLoop(i + 1, suffix, tag)

\* createSampleIconsOps without the two fs.ensureDir calls
createSampleIconsOpsWithoutEnsureDir ==
  IconLoop(1, "png", "iconContent") \o IconLoop(1, "svg", "svgIcon")

createSampleIconsOps ==
  << EnsureDir(<<"assets">>), EnsureDir(<<"assets", "icons">>) >>
  \o IconLoop(1, "png", "iconContent")
  \o IconLoop(1, "svg", "svgIcon")

\* createSourceFiles calling createHtmlFiles before it writes the stubs
createSourceFilesOpsHtmlFirst(opts) ==
  createHtmlFilesOps
  \o << WriteFile(<<"src", "background", IndexFile(extension(opts))>>, "backgroundScript", BackgroundComment(opts)),
        WriteFile(<<"background.js">>, "backgroundScript", BackgroundComment(opts)),
        WriteFile(<<"src", "content", IndexFile(extension(opts))>>, "contentScript", <<>>),
        WriteFile(<<"content.js">>, "contentScript", <<>>) >>
  \o createUIFilesOps(opts)
  \o createSampleIconsOps
  \o << WriteFile(<<"STRUCTURE.md">>, "readmeNote", <<>>) >>

createSourceFilesOps(opts) ==
  << WriteFile(<<"src", "background", IndexFile(extension(opts))>>, "backgroundScript", BackgroundComment(opts)),
     WriteFile(<<"background.js">>, "backgroundScript", BackgroundComment(opts)),
     WriteFile(<<"src", "content", IndexFile(extension(opts))>>, "contentScript", <<>>),
     WriteFile(<<"content.js">>, "contentScript", <<>>) >>
  \o createHtmlFilesOps
  \o createUIFilesOps(opts)
  \o createSampleIconsOps
  \o << WriteFile(<<"STRUCTURE.md">>, "readmeNote", <<>>) >>

---------------------------------------------------------------------------
(* createPackageJson *)

BaseDevDependencies ==
  {"@babel/core", "@babel/preset-env", "babel-loader", "copy-webpack-plugin", "css-loader",
   "eslint", "html-webpack-plugin", "rimraf", "style-loader", "webpack", "webpack-cli"}

PackageScripts ==
  [clean |-> "rimraf dist",
   dev |-> "webpack --mode=development --watch",
   build |-> "npm run clean && webpack --mode=production",
   setup |-> "npm install && npm run build && node scripts/setup-instructions.js",
   lint |-> "eslint src/**/*.js",
   test |-> "echo \"Error: no test specified\" && exit 1"]

\* PackageJson with the React type packages added in the react branch
\* whether or not typescript is selected
PackageJsonReactTypesAlways(path, opts) ==
  [name |-> PathBasename(path),
   version |-> "1.0.0",
   description |-> "A Chrome extension created with create-web-extension",
   scripts |-> PackageScripts,
   devDependencies |->
     BaseDevDependencies
     \cup (IF Truthy(opts, "typescript")
           THEN {"@babel/preset-typescript", "@types/chrome", "typescript", "ts-loader"} ELSE {})
     \cup (IF Truthy(opts, "react")
           THEN {"@babel/preset-react", "@types/react", "@types/react-dom"} ELSE {}),
   dependencies |-> IF Truthy(opts, "react") THEN {"react", "react-dom"} ELSE {}]

\* the commands of PackageScripts that run webpack
InvokesWebpack(command) ==
  command \in {"webpack --mode=development --watch",
               "npm run clean && webpack --mode=production"}

\* the names declared in dependencies and devDependencies (versions are fixed strings)
PackageJson(path, opts) ==
  [name |-> PathBasename(path),
   version |-> "1.0.0",
   description |-> "A Chrome extension created with create-web-extension",
   scripts |-> PackageScripts,
   devDependencies |->
     BaseDevDependencies
     \cup (IF Truthy(opts, "typescript")
           THEN {"@babel/preset-typescript", "@types/chrome", "typescript", "ts-loader"} ELSE {})
     \cup (IF Truthy(opts, "react") THEN {"@babel/preset-react"} ELSE {})
     \cup (IF Truthy(opts, "react") /\ Truthy(opts, "typescript")
           THEN {"@types/react", "@types/react-dom"} ELSE {}),
   dependencies |-> IF Truthy(opts, "react") THEN {"react", "react-dom"} ELSE {}]

createPackageJsonOps(path, opts) ==
  << WriteJSON(<<"package.json">>, "packageJson", PackageJson(path, opts)) >>

---------------------------------------------------------------------------
(* createWebpackConfig *)

\* index.${typescript ? 'tsx' : react ? 'jsx' : 'js'}
UIEntryFile(opts) ==
  IF Truthy(opts, "typescript") THEN "index.tsx"
  ELSE IF Truthy(opts, "react") THEN "index.jsx" ELSE "index.js"

\* index.${typescript ? 'ts' : 'js'}
ScriptEntryFile(opts) == IF Truthy(opts, "typescript") THEN "index.ts" ELSE "index.js"

WebpackEntry(opts) ==
  [popup |-> <<"src", "popup", UIEntryFile(opts)>>,
   options |-> <<"src", "options", UIEntryFile(opts)>>,
   background |-> <<"src", "background", ScriptEntryFile(opts)>>,
   content |-> <<"src", "content", ScriptEntryFile(opts)>>]

createWebpackConfigOps(opts) ==
  << WriteFile(<<"webpack.config.js">>, "webpackConfig", WebpackEntry(opts)) >>
  \o (IF Truthy(opts, "typescript")
      THEN << WriteJSON(<<"tsconfig.json">>, "tsConfig",
                        [jsx |-> IF Truthy(opts, "react") THEN "react" ELSE "preserve"]) >>
      ELSE <<>>)

\* NeedsWebpackConfig testing typescript alone
NeedsWebpackConfigTypescriptOnly(opts) == Truthy(opts, "typescript")

\* if (react || typescript) in createExtension
NeedsWebpackConfig(opts) == Truthy(opts, "react") \/ Truthy(opts, "typescript")

---------------------------------------------------------------------------
(* createReadme *)

\* `${manifestVersion}` in a template literal
ManifestVersionText(opts) ==
  IF ~Has(opts, "manifestVersion") THEN "undefined"
  ELSE IF opts.manifestVersion = 3 THEN "3" ELSE "2"

Readme(path, opts) ==
  [title |-> PathBasename(path),
   language |-> IF Truthy(opts, "typescript") THEN "TypeScript" ELSE "JavaScript",
   ui |-> IF Truthy(opts, "react") THEN "React for UI components" ELSE "Vanilla JS for UI",
   manifestV |-> ManifestVersionText(opts)]

\* createReadmeOps with the README also recording whether prompts were skipped
createReadmeOpsNotingSkipPrompts(path, opts) ==
  << WriteFile(<<"README.md">>, "readmeContent",
               [Readme(path, opts) EXCEPT !.ui =
                  IF Truthy(opts, "skipPrompts") THEN "unattended" ELSE @]) >>

createReadmeOps(path, opts) ==
  << WriteFile(<<"README.md">>, "readmeContent", Readme(path, opts)) >>

---------------------------------------------------------------------------
(* The command line: [project-directory] --typescript --react --skip-prompts *)

\* commander sets a flag's key only when the flag is given
FlagSets ==
  {[k \in ks |-> TRUE] : ks \in SUBSET {"typescript", "react", "skipPrompts"}}

\* !targetDir: undefined and the empty string are falsy
Falsy(t) == t = None \/ t = Some(<<>>)

\* the scripts of the generated extension are not running
TemplatesIdle ==
  /\ stored = None
  /\ countBefore = 0
  /\ handlers = <<>>
  /\ ports = <<>>

\* targetDir names a directory below another one that is not process.cwd()
Nested(t) == t # None /\ Len(SplitPath(t[1], 1, <<>>)) > 1

\* the directories between process.cwd() and projectPath: there already, or
\* missing (which only a target that does not exist yet can have)
IntermediateBefore(t, f) ==
  IF Nested(t) /\ f = PreAbsent THEN {"present", "missing"} ELSE {"present"}

Init ==
  /\ pc = "action"
  /\ targetDir \in {None} \cup {Some(n) : n \in Names}
  /\ options \in FlagSets
  /\ questions = <<>>
  /\ answers = <<>>
  /\ promptError = ""
  /\ projectPath = None
  /\ fs \in PreExisting
  /\ log = <<>>
  /\ console = <<>>
  /\ exitCode = 0
  /\ intermediate \in IntermediateBefore(targetDir, fs)
  /\ TemplatesIdle

---------------------------------------------------------------------------
(* promptForMissingOptions *)

\* BuildQuestions asking for typescript whether or not the flag was given
BuildQuestionsAskingTypescript(projectDirectory, opts) ==
  (IF Falsy(projectDirectory) THEN <<"projectDirectory">> ELSE <<>>)
  \o <<"typescript">>
  \o (IF ~Has(opts, "react") THEN <<"react">> ELSE <<>>)
  \o <<"manifestVersion", "permissions">>

\* the questions array, in the order the questions are pushed
BuildQuestions(projectDirectory, opts) ==
  (IF Falsy(projectDirectory) THEN <<"projectDirectory">> ELSE <<>>)
  \o (IF ~Has(opts, "typescript") THEN <<"typescript">> ELSE <<>>)
  \o (IF ~Has(opts, "react") THEN <<"react">> ELSE <<>>)
  \o <<"manifestVersion", "permissions">>

Asked(q) == \E i \in 1..Len(questions) : questions[i] = q

\* if (!options.skipPrompts): promptForMissingOptions builds its questions
PromptForMissingOptions ==
  /\ pc = "action"
  /\ ~Truthy(options, "skipPrompts")
  /\ questions' = BuildQuestions(targetDir, options)
  /\ pc' = "prompt"
  /\ UNCHANGED <<targetDir, options, answers, promptError, projectPath, fs, log, console, exitCode, intermediate>>
  /\ UNCHANGED templateVars

\* the name question: a line is typed; inquirer keeps asking while validate
\* returns a message
AnswerProjectDirectory ==
  /\ pc = "prompt"
  /\ Asked("projectDirectory")
  /\ ~Has(answers, "projectDirectory")
  /\ \E typed \in Names :
       LET a == InputAnswer(typed) IN
         IF validate(a) = ""
         THEN /\ answers' = [projectDirectory |-> a]
              /\ promptError' = ""
         ELSE /\ promptError' = validate(a)
              /\ UNCHANGED answers
  /\ UNCHANGED <<pc, targetDir, options, questions, projectPath, fs, log, console, exitCode, intermediate>>
  /\ UNCHANGED templateVars

\* the answers object: one key per question asked
Answers(nameAnswer, ts, re, mv, perms) ==
  Spread(nameAnswer,
    Spread(IF Asked("typescript") THEN [typescript |-> ts] ELSE <<>>,
      Spread(IF Asked("react") THEN [react |-> re] ELSE <<>>,
             [manifestVersion |-> mv, permissions |-> perms])))

\* targetDir = answers.projectDirectory || targetDir
MergedTargetDir(ans, t) ==
  IF Has(ans, "projectDirectory") /\ ans.projectDirectory # <<>>
  THEN Some(ans.projectDirectory) ELSE t

\* options = { ...options, ...answers }
MergedOptions(opts, ans) == Spread(opts, ans)

\* inquirer.prompt resolves with the remaining answers and the action merges
\* them (lines 25-29); questions and answers are not read afterwards
PromptResolved ==
  /\ pc = "prompt"
  /\ Asked("projectDirectory") => Has(answers, "projectDirectory")
  /\ \E ts \in BOOLEAN, re \in BOOLEAN, mv \in {3, 2}, perms \in PermissionAnswers :
       LET ans == Answers(answers, ts, re, mv, perms) IN
         /\ targetDir' = MergedTargetDir(ans, targetDir)
         /\ options' = MergedOptions(options, ans)
  /\ questions' = <<>>
  /\ answers' = <<>>
  /\ pc' = "createExtension"
  /\ UNCHANGED <<promptError, projectPath, fs, log, console, exitCode, intermediate>>
  /\ UNCHANGED templateVars

\* Catch leaving the exit code as it is
CatchWithoutExit ==
  /\ console' = Append(console, "error")
  /\ exitCode' = exitCode
  /\ pc' = "done"

\* catch (error) { console.error(...); process.exit(1); }
Catch ==
  /\ console' = Append(console, "error")
  /\ exitCode' = 1
  /\ pc' = "done"

\* what promptError holds when inquirer.prompt has rejected (the terminal is
\* not interactive, the input was closed)
PromptRejection == "prompt rejected"

\* await promptForMissingOptions(...) throws: the catch block of the action
PromptRejected ==
  /\ pc = "prompt"
  /\ promptError' = PromptRejection
  /\ Catch
  /\ UNCHANGED <<targetDir, options, questions, answers, projectPath, fs, log, intermediate>>
  /\ UNCHANGED templateVars

\* SkipPromptsTargetDir testing for undefined only
SkipPromptsTargetDirUndefinedOnly(t) == IF t = None THEN Some(DefaultName) ELSE t

\* else if (!targetDir) targetDir = 'my-web-extension'
SkipPromptsTargetDir(t) == IF Falsy(t) THEN Some(DefaultName) ELSE t

SkipPrompts ==
  /\ pc = "action"
  /\ Truthy(options, "skipPrompts")
  /\ targetDir' = SkipPromptsTargetDir(targetDir)
  /\ pc' = "createExtension"
  /\ UNCHANGED <<options, questions, answers, promptError, projectPath, fs, log, console, exitCode, intermediate>>
  /\ UNCHANGED templateVars

---------------------------------------------------------------------------
(* createExtension *)

\* one awaited helper: its operations in order; a failure propagates to the
\* catch block of the action, otherwise control moves on to `next`
Step(ops, next) ==
  \E outcomes \in {Run(ops, fs, log)} :
    \E j \in 1..Len(outcomes) :
      \E st \in {outcomes[j]} :
        /\ fs' = st.fs
        /\ log' = st.log
        /\ IF st.failed THEN Catch
           ELSE pc' = next /\ UNCHANGED <<console, exitCode>>

\* NonEmpty with the comparison off by one
NonEmptyMoreThanOne(f) == Cardinality(DirContents(f)) > 1

\* dirContents.length > 0
NonEmpty(f) == DirContents(f) # {}

\* lines 866-881: resolve the path, ensure the directory (fs.ensureDir makes
\* the missing directories above it too), warn if it has entries
CreateExtension ==
  /\ pc = "createExtension"
  /\ projectPath' = Some(PathResolve(Cwd, targetDir[1]))
  /\ \E outcomes \in {Run(<<EnsureDir(<<>>), Readdir(<<>>)>>, fs, log)} :
       \E j \in 1..Len(outcomes) :
         \E st \in {outcomes[j]} :
           /\ fs' = st.fs
           /\ log' = st.log
           /\ intermediate' = IF intermediate = "missing" /\ st.log[Len(log) + 1].err = ""
                              THEN "created" ELSE intermediate
           /\ IF st.failed THEN Catch
              ELSE /\ pc' = "createProjectStructure"
                   /\ console' = IF NonEmpty(st.fs) THEN Append(console, "warning") ELSE console
                   /\ UNCHANGED exitCode
  /\ UNCHANGED <<targetDir, options, questions, answers, promptError>>
  /\ UNCHANGED templateVars

CreateProjectStructure ==
  /\ pc = "createProjectStructure"
  /\ Step(createProjectStructureOps, "createManifestFile")
  /\ UNCHANGED <<targetDir, options, questions, answers, promptError, projectPath, intermediate>>
  /\ UNCHANGED templateVars

CreateManifestFile ==
  /\ pc = "createManifestFile"
  /\ Step(createManifestFileOps(projectPath[1], options), "createSourceFiles")
  /\ UNCHANGED <<targetDir, options, questions, answers, promptError, projectPath, intermediate>>
  /\ UNCHANGED templateVars

CreateSourceFiles ==
  /\ pc = "createSourceFiles"
  /\ Step(createSourceFilesOps(options), "createPackageJson")
  /\ UNCHANGED <<targetDir, options, questions, answers, promptError, projectPath, intermediate>>
  /\ UNCHANGED templateVars

CreatePackageJson ==
  /\ pc = "createPackageJson"
  /\ Step(createPackageJsonOps(projectPath[1], options), "createWebpackConfig")
  /\ UNCHANGED <<targetDir, options, questions, answers, promptError, projectPath, intermediate>>
  /\ UNCHANGED templateVars

CreateWebpackConfig ==
  /\ pc = "createWebpackConfig"
  /\ NeedsWebpackConfig(options)
  /\ Step(createWebpackConfigOps(options), "createReadme")
  /\ UNCHANGED <<targetDir, options, questions, answers, promptError, projectPath, intermediate>>
  /\ UNCHANGED templateVars

SkipWebpackConfig ==
  /\ pc = "createWebpackConfig"
  /\ ~NeedsWebpackConfig(options)
  /\ pc' = "createReadme"
  /\ UNCHANGED <<targetDir, options, questions, answers, promptError, projectPath, fs, log,
                 console, exitCode, intermediate>>
  /\ UNCHANGED templateVars

CreateReadme ==
  /\ pc = "createReadme"
  /\ Step(createReadmeOps(projectPath[1], options), "created")
  /\ UNCHANGED <<targetDir, options, questions, answers, promptError, projectPath, intermediate>>
  /\ UNCHANGED templateVars

\* lines 38-47: createExtension has resolved; the action returns and the
\* process ends with code 0
ReportSuccess ==
  /\ pc = "created"
  /\ console' = Append(console, "success")
  /\ pc' = "done"
  /\ UNCHANGED <<targetDir, options, questions, answers, promptError, projectPath, fs, log,
                 exitCode, intermediate>>
  /\ UNCHANGED templateVars

Next ==
  \/ PromptForMissingOptions
  \/ AnswerProjectDirectory
  \/ PromptResolved
  \/ PromptRejected
  \/ SkipPrompts
  \/ CreateExtension
  \/ CreateProjectStructure
  \/ CreateManifestFile
  \/ CreateSourceFiles
  \/ CreatePackageJson
  \/ CreateWebpackConfig
  \/ SkipWebpackConfig
  \/ CreateReadme
  \/ ReportSuccess

Spec == Init /\ [][Next]_vars

---------------------------------------------------------------------------
(* The earlier definition of createExtension in the file (lines 130-167)   *)
(* with its own helpers (172-306), called with resolved options.           *)

\* every options object the JSDoc of createExtension describes
ResolvedOptions ==
  {[typescript |-> ts, react |-> re, manifestVersion |-> mv, permissions |-> perms] :
     ts \in BOOLEAN, re \in BOOLEAN, mv \in {2, 3}, perms \in PermissionAnswers}

InitEarlier ==
  /\ pc = "earlier createExtension"
  /\ targetDir \in {Some(n) : n \in Names}
  /\ options \in ResolvedOptions
  /\ questions = <<>>
  /\ answers = <<>>
  /\ promptError = ""
  /\ projectPath = None
  /\ fs \in PreExisting
  /\ log = <<>>
  /\ console = <<>>
  /\ exitCode = 0
  /\ intermediate \in IntermediateBefore(targetDir, fs)
  /\ TemplatesIdle

\* lines 131-145: as lines 866-881
EarlierCreateExtension ==
  /\ pc = "earlier createExtension"
  /\ projectPath' = Some(PathResolve(Cwd, targetDir[1]))
  /\ \E outcomes \in {Run(<<EnsureDir(<<>>), Readdir(<<>>)>>, fs, log)} :
       \E j \in 1..Len(outcomes) :
         \E st \in {outcomes[j]} :
           /\ fs' = st.fs
           /\ log' = st.log
           /\ intermediate' = IF intermediate = "missing" /\ st.log[Len(log) + 1].err = ""
                              THEN "created" ELSE intermediate
           /\ IF st.failed THEN Catch
              ELSE /\ pc' = "earlier createProjectStructure"
                   /\ console' = IF NonEmpty(st.fs) THEN Append(console, "warning") ELSE console
                   /\ UNCHANGED exitCode
  /\ UNCHANGED <<targetDir, options, questions, answers, promptError>>
  /\ UNCHANGED templateVars

\* the directories array of lines 176-184
earlierDirectories ==
  << <<"src">>, <<"src", "background">>, <<"src", "popup">>, <<"src", "options">>,
     <<"src", "content">>, <<"src", "assets">>, <<"src", "assets", "icons">> >>

earlierCreateProjectStructureOps ==
  [i \in 1..Len(earlierDirectories) |-> EnsureDir(earlierDirectories[i])]

EarlierCreateProjectStructure ==
  /\ pc = "earlier createProjectStructure"
  /\ Step(earlierCreateProjectStructureOps, "earlier createManifestFile")
  /\ UNCHANGED <<targetDir, options, questions, answers, promptError, projectPath, intermediate>>
  /\ UNCHANGED templateVars

\* lines 194-251: the same manifest object, written below src/ only
earlierCreateManifestFileOps(path, opts) ==
  << WriteJSON(<<"src", "manifest.json">>, "manifest", Manifest(path, opts)) >>

EarlierCreateManifestFile ==
  /\ pc = "earlier createManifestFile"
  /\ Step(earlierCreateManifestFileOps(projectPath[1], options), "earlier createSourceFiles")
  /\ UNCHANGED <<targetDir, options, questions, answers, promptError, projectPath, intermediate>>
  /\ UNCHANGED templateVars

\* lines 256-266: createSourceFiles takes typescript and react from options
\* and then evaluates ${manifestVersion === 3 ? ... } in the template of the
\* background script.  No manifestVersion is declared in that function or
\* at the top of the file, so the evaluation throws a ReferenceError before
\* the first write; createExtension rejects, and the calls after line 152
\* (createPackageJson, createWebpackConfig, createReadme) are never made.
EarlierCreateSourceFiles ==
  /\ pc = "earlier createSourceFiles"
  /\ Catch
  /\ UNCHANGED <<targetDir, options, questions, answers, promptError, projectPath, fs, log,
                 intermediate>>
  /\ UNCHANGED templateVars

NextEarlier ==
  \/ EarlierCreateExtension
  \/ EarlierCreateProjectStructure
  \/ EarlierCreateManifestFile
  \/ EarlierCreateSourceFiles

SpecEarlier == InitEarlier /\ [][NextEarlier]_vars

---------------------------------------------------------------------------
(* The scripts of the generated extension in the browser: the click        *)
(* handler of the popup counter (popupJs, index.js 1443-1459; incrementCount *)
(* in templates/typescript/background.ts 43-51) and the onMessage listener *)
(* of the background script with the messages sent to it.  stored is the   *)
(* count key of chrome.storage.local; every callback is a step of its own. *)

\* result.count || 0
CountOrZero(st) == IF st = None THEN 0 ELSE st[1]

\* who sends a message to the background script: the popup when it opens,
\* the content script when its page has loaded, and a page asking for the count
Senders == {"popup", "content", "query"}

MessageType(sender) ==
  CASE sender = "popup" -> "POPUP_OPENED"
    [] sender = "content" -> "CONTENT_LOADED"
    [] OTHER -> "GET_COUNT"

InitTemplates ==
  /\ pc = "loaded"
  /\ targetDir = None
  /\ options = <<>>
  /\ questions = <<>>
  /\ answers = <<>>
  /\ promptError = ""
  /\ projectPath = None
  /\ fs = PreEmpty
  /\ log = <<>>
  /\ console = <<>>
  /\ exitCode = 0
  /\ intermediate = "present"
  /\ stored \in {None, Some(0), Some(1)}
  /\ countBefore = CountOrZero(stored)
  /\ handlers = <<>>
  /\ ports = [s \in Senders |-> [type |-> MessageType(s), phase |-> "unsent", response |-> None]]

\* a click on #increment: the listener calls chrome.storage.local.get
ClickIncrement ==
  /\ Len(handlers) < MaxClicks
  /\ handlers' = Append(handlers, [phase |-> "get", newCount |-> 0])
  /\ UNCHANGED <<stored, countBefore, ports>>
  /\ UNCHANGED generatorVars

\* the callback of get: newCount = (result.count || 0) + 1, then
\* chrome.storage.local.set({ count: newCount }, ...) is called
IncrementGetCallback ==
  /\ \E k \in 1..Len(handlers) :
       /\ handlers[k].phase = "get"
       /\ handlers' = [handlers EXCEPT ![k] = [phase |-> "set", newCount |-> CountOrZero(stored) + 1]]
  /\ UNCHANGED <<stored, countBefore, ports>>
  /\ UNCHANGED generatorVars

\* the set is done and its callback shows newCount
IncrementSetCallback ==
  /\ \E k \in 1..Len(handlers) :
       /\ handlers[k].phase = "set"
       /\ stored' = Some(handlers[k].newCount)
       /\ handlers' = [handlers EXCEPT ![k].phase = "done"]
  /\ UNCHANGED <<countBefore, ports>>
  /\ UNCHANGED generatorVars

\* chrome.runtime.sendMessage({ type: ... }, callback)
SendMessage ==
  /\ \E s \in Senders :
       /\ ports[s].phase = "unsent"
       /\ ports' = [ports EXCEPT ![s].phase = "sent"]
  /\ UNCHANGED <<stored, countBefore, handlers>>
  /\ UNCHANGED generatorVars

\* the onMessage listener of the background script: for GET_COUNT it calls
\* chrome.storage.local.get and returns true, which keeps the port open; for
\* every other type it returns undefined without calling sendResponse, so
\* the port closes and the callback of the sender runs without a response
OnMessage ==
  /\ \E s \in Senders :
       /\ ports[s].phase = "sent"
       /\ ports' = [ports EXCEPT ![s].phase =
                      IF ports[s].type = "GET_COUNT" THEN "pending" ELSE "closed"]
  /\ UNCHANGED <<stored, countBefore, handlers>>
  /\ UNCHANGED generatorVars

\* the callback of the listener's get: sendResponse({ count: result.count || 0 })
GetCountCallback ==
  /\ \E s \in Senders :
       /\ ports[s].phase = "pending"
       /\ ports' = [ports EXCEPT ![s] = [type |-> ports[s].type, phase |-> "answered",
                                         response |-> Some(CountOrZero(stored))]]
  /\ UNCHANGED <<stored, countBefore, handlers>>
  /\ UNCHANGED generatorVars

NextTemplates ==
  \/ ClickIncrement
  \/ IncrementGetCallback
  \/ IncrementSetCallback
  \/ SendMessage
  \/ OnMessage
  \/ GetCountCallback

SpecTemplates == InitTemplates /\ [][NextTemplates]_vars

---------------------------------------------------------------------------
(* Vocabulary of the properties *)

Ok(e) == e.err = ""
IsWrite(e) == e.op \in {"writeFile", "writeJSON"}

\* path p was written by this run
Written(p) == \E i \in 1..Len(log) : IsWrite(log[i]) /\ Ok(log[i]) /\ log[i].path = p

\* the manifests this run has written, from the filesystem
ManifestPaths == {<<"manifest.json">>, <<"src", "manifest.json">>}
WrittenManifests == {fs[p].data : p \in {q \in ManifestPaths : Written(q)}}

Succeeded == pc = "done" /\ exitCode = 0

\* no operation has failed for a reason outside the model
NoEnvFailure == \A i \in 1..Len(log) : log[i].err # EnvError

\* the operations createExtension issues after its check of the directory,
\* when none fails
LayoutPlan(path, opts) ==
  createProjectStructureOps
  \o createManifestFileOps(path, opts)
  \o createSourceFilesOps(opts)
  \o createPackageJsonOps(path, opts)
  \o (IF NeedsWebpackConfig(opts) THEN createWebpackConfigOps(opts) ELSE <<>>)
  \o createReadmeOps(path, opts)

\* const { typescript, react, manifestVersion, permissions } = options: the
\* part of the options object the generator reads
ConfigurationKeys == {"typescript", "react", "manifestVersion", "permissions"}
Configuration(opts) == [k \in DOMAIN opts \cap ConfigurationKeys |-> opts[k]]

\* every operation createExtension issues when none fails
GenerateOps(path, opts) ==
  <<EnsureDir(<<>>), Readdir(<<>>)>> \o LayoutPlan(path, opts)

\* the file names this run has written below src/<dir>, the page and its
\* style sheet aside, and the positions of those writes
ScriptSourceIdx(dir) ==
  {i \in 1..Len(log) :
     /\ IsWrite(log[i]) /\ Ok(log[i])
     /\ Len(log[i].path) = 3 /\ log[i].path[1] = "src" /\ log[i].path[2] = dir
     /\ log[i].path[3] \notin {"index.html", "index.css"}}
ScriptSources(dir) == {log[i].path[3] : i \in ScriptSourceIdx(dir)}

\* the file a reference in the manifest names, relative to the directory of
\* the manifest: the reference split at "/"
ManifestRefPath(ref) ==
  CASE ref = "popup.html" -> <<"popup.html">>
    [] ref = "options.html" -> <<"options.html">>
    [] ref = "background.js" -> <<"background.js">>
    [] ref = "content.js" -> <<"content.js">>
    [] ref = "assets/icons/icon16.png" -> <<"assets", "icons", "icon16.png">>
    [] ref = "assets/icons/icon48.png" -> <<"assets", "icons", "icon48.png">>
    [] ref = "assets/icons/icon128.png" -> <<"assets", "icons", "icon128.png">>
    [] OTHER -> <<ref>>

\* every file manifest m refers to
ManifestRefs(m) ==
  LET toolbar == IF "action" \in DOMAIN m THEN m.action ELSE m.browser_action
  IN {toolbar.default_popup, m.options_page}
     \cup {toolbar.default_icon[size] : size \in DOMAIN toolbar.default_icon}
     \cup {m.icons[size] : size \in DOMAIN m.icons}
     \cup (IF "service_worker" \in DOMAIN m.background
           THEN {m.background.service_worker}
           ELSE {m.background.scripts[i] : i \in 1..Len(m.background.scripts)})
     \cup UNION {{cs.js[i] : i \in 1..Len(cs.js)} :
                 cs \in {m.content_scripts[k] : k \in 1..Len(m.content_scripts)}}

\* `${n}` for the manifest versions
DecimalText(n) == IF n = 3 THEN "3" ELSE "2"

\* the success message has been printed
SuccessReported == \E i \in 1..Len(console) : console[i] = "success"

\* an await of the action has thrown: the prompt or a filesystem operation
FatalError ==
  promptError = PromptRejection \/ \E i \in 1..Len(log) : ~Ok(log[i])

\* the templates written to path p by this run, in the order of the writes
TagsWrittenTo(p) ==
  LET At(e) == IsWrite(e) /\ Ok(e) /\ e.path = p
      hits == SelectSeq(log, At)
  IN [i \in 1..Len(hits) |-> hits[i].tag]

\* path.join(projectPath, ...segments): how far below projectPath the path
\* is after its first n segments (".." goes up, "." stays)
RECURSIVE Depth(_, _)
Depth(segments, n) ==
  IF n = 0 THEN 0
  ELSE Depth(segments, n - 1)
       + (IF segments[n] = ".." THEN -1 ELSE IF segments[n] = "." THEN 0 ELSE 1)

\* the joined path never leaves projectPath
InsideRoot(segments) == \A n \in 1..Len(segments) : Depth(segments, n) >= 0

\* the directories fs.ensureDir(projectPath) has made above projectPath
CreatedAbove ==
  IF intermediate = "created"
  THEN {Prefix(projectPath[1], n) : n \in (Len(Cwd) + 1)..(Len(projectPath[1]) - 1)}
  ELSE {}

\* the positions in the log of the operations of one kind
Idx(Kind(_)) == {i \in 1..Len(log) : Kind(log[i])}

IsEnsureDir(e) == e.op = "ensureDir"
IsReadmeWrite(e) == IsWrite(e) /\ e.path = <<"README.md">>
IsManifestWrite(e) == IsWrite(e) /\ e.path \in ManifestPaths
IsHtmlCssWrite(e) ==
  e.tag \in {"popupHtml", "optionsHtml", "updatedPopupHtml", "updatedOptionsHtml",
             "directPopupHtml", "directOptionsHtml", "popupCss", "optionsCss"}
IsScriptStubWrite(e) ==
  e.tag \in {"backgroundScript", "contentScript", "popupJs", "optionsJs",
             "popupReact", "optionsReact"}
IsBuildConfigWrite(e) ==
  e.path \in {<<"package.json">>, <<"webpack.config.js">>, <<"tsconfig.json">>}
Warned == \E i \in 1..Len(console) : console[i] = "warning"
SkippedPrompts == Truthy(options, "skipPrompts")

---------------------------------------------------------------------------
(* C1: every manifest written has exactly one toolbar-action key: with     *)
(* manifestVersion 3 it has manifest_version 3, an action key, no          *)
(* browser_action key and background = {service_worker}; with              *)
(* manifestVersion 2 it has manifest_version 2, a browser_action key, no   *)
(* action key and background = {scripts: [...], persistent: false}.        *)
C1_ManifestShape ==
  \A m \in WrittenManifests :
    /\ ("action" \in DOMAIN m) # ("browser_action" \in DOMAIN m)
    /\ (Has(options, "manifestVersion") /\ options.manifestVersion = 3) =>
         /\ m.manifest_version = 3
         /\ "action" \in DOMAIN m /\ "browser_action" \notin DOMAIN m
         /\ DOMAIN m.background = {"service_worker"}
         /\ m.background.service_worker = "background.js"
    /\ (Has(options, "manifestVersion") /\ options.manifestVersion = 2) =>
         /\ m.manifest_version = 2
         /\ "browser_action" \in DOMAIN m /\ "action" \notin DOMAIN m
         /\ DOMAIN m.background = {"scripts", "persistent"}
         /\ m.background.scripts = <<"background.js">>
         /\ m.background.persistent = FALSE

\* a version-2 run has completed and its manifests carry browser_action
C1_Witness ==
  /\ Succeeded
  /\ Has(options, "manifestVersion") /\ options.manifestVersion = 2
  /\ \E m \in WrittenManifests : "browser_action" \in DOMAIN m

(* C2: run with --skip-prompts and no manifest version, the generated      *)
(* manifest has manifest_version 3 and an action key (the defaults plain,  *)
(* vanilla, version 3 are filled in).                                      *)
C2_SkipPromptsDefaultsToV3 ==
  (SkippedPrompts /\ ~Has(options, "manifestVersion") /\ exitCode = 0) =>
    \A m \in WrittenManifests : m.manifest_version = 3 /\ "action" \in DOMAIN m

(* C3: when the permissions selection is unset or an empty list the        *)
(* manifest's permissions are [storage, activeTab]; they are never empty.  *)
C3_PermissionsNeverEmpty ==
  exitCode = 0 =>
  \A m \in WrittenManifests :
    /\ m.permissions # <<>>
    /\ (~Has(options, "permissions") \/ options.permissions = <<>>) =>
         m.permissions = <<"storage", "activeTab">>

(* C4: project-name resolution succeeds exactly for the names matching     *)
(* [A-Za-z0-9_-]+, however the name is supplied: createExtension is never  *)
(* reached with a name outside the pattern.                                *)
C4_OnlyValidNamesResolve ==
  pc \notin {"action", "prompt"} => NamePatternTest(targetDir[1])

(* C5: an invalid name given as the positional argument with              *)
(* --skip-prompts is fatal: no directory or file is written and the        *)
(* process exits non-zero.                                                 *)
C5_InvalidArgumentIsFatal ==
  (SkippedPrompts /\ targetDir # None /\ ~NamePatternTest(targetDir[1]) /\ NoEnvFailure) =>
    /\ \A i \in 1..Len(log) : log[i].op = "readdir" \/ ~Ok(log[i])
    /\ pc = "done" => exitCode # 0

C7_FailureIsFatal ==
  /\ \A i \in 1..Len(log) :
       ~Ok(log[i]) => (i = Len(log) /\ pc = "done" /\ exitCode # 0)
  /\ \A i \in 1..Len(log) :
       Ok(log[i]) =>
         CASE log[i].op = "ensureDir" -> IsDir(fs, log[i].path)
           [] IsWrite(log[i]) -> IsFile(fs, log[i].path) /\ fs[log[i].path].tag # "stale"
           [] OTHER -> TRUE
  /\ exitCode # 0 => (promptError = PromptRejection \/ \E i \in 1..Len(log) : ~Ok(log[i]))

\* a write failed after the manifests had been written; they are still there
C7_Witness ==
  /\ Len(log) > 12
  /\ ~Ok(log[Len(log)])
  /\ log[Len(log)].err = EnvError
  /\ IsFile(fs, <<"manifest.json">>) /\ fs[<<"manifest.json">>].tag = "manifest"
  /\ exitCode = 1

(* C8 as stated: generating into a directory that already holds entries    *)
(* never aborts; only a failure from outside (EnvError) ends such a run.   *)
C8_PrePopulatedNeverAborts ==
  Warned => \A i \in 1..Len(log) : ~Ok(log[i]) => log[i].err = EnvError

(* C8 as amended: the check of the directory never aborts the run.  The   *)
(* warning is printed exactly when the directory holds entries, before any *)
(* planned operation; an operation then fails only for an outside reason   *)
(* or because an entry found there blocks its path (a file where the plan  *)
(* needs a directory); and a run that completes has issued exactly the     *)
(* planned operations, the files it wrote replacing those found there.     *)
C8_PrePopulatedWarnsAndOverwrites ==
  /\ pc = "createProjectStructure" =>
       /\ Len(log) = 2
       /\ Warned <=> (DirContents(fs) # {})
  /\ Warned => pc \notin {"action", "prompt", "createExtension"}
  /\ \A i \in 1..Len(log) :
       (~Ok(log[i]) /\ log[i].err # EnvError) =>
         \E n \in 0..Len(log[i].path) :
           LET q == Prefix(log[i].path, n)
           IN q \in DOMAIN fs /\ fs[q].tag = "stale"
                /\ (fs[q].kind = "file") # (IsWrite(log[i]) /\ n = Len(log[i].path))
  /\ Succeeded =>
       LET plan == LayoutPlan(projectPath[1], options) IN
         /\ Len(log) = Len(plan) + 2
         /\ \A i \in 1..Len(plan) :
              /\ log[i + 2].op = plan[i].op
              /\ log[i + 2].path = plan[i].path
              /\ log[i + 2].tag = plan[i].tag
         /\ \A i \in 1..Len(plan) :
              IsWrite(plan[i]) => IsFile(fs, plan[i].path) /\ fs[plan[i].path].tag # "stale"

\* a run into a directory holding README.md and notes.txt has completed:
\* it warned, replaced README.md and left notes.txt alone
C8_Witness ==
  /\ Succeeded
  /\ Warned
  /\ fs[<<"README.md">>].tag = "readmeContent"
  /\ IsFile(fs, <<"notes.txt">>) /\ fs[<<"notes.txt">>].tag = "stale"

(* C9 as stated: every directory creation precedes the manifest write,     *)
(* every script-stub write precedes every HTML/CSS write, and README.md is *)
(* the last file written.                                                  *)
C9_FixedOrder ==
  Succeeded =>
  /\ \A i \in Idx(IsEnsureDir), j \in Idx(IsManifestWrite) : i < j
  /\ \A i \in Idx(IsScriptStubWrite), j \in Idx(IsHtmlCssWrite) : i < j
  /\ \A i \in Idx(IsReadmeWrite) : i = Len(log)

(* C9 as amended: the directories of the project structure (and the root)  *)
(* are created before the manifest is written, but assets/ and             *)
(* assets/icons/ are created after it; the background and content stubs    *)
(* are written before every HTML/CSS file, but the popup and options       *)
(* scripts only after the first HTML and CSS files; every build            *)
(* configuration file follows every HTML/CSS write; README.md is the last  *)
(* file written.                                                           *)
C9_ActualOrder ==
  /\ \A i \in Idx(IsEnsureDir), j \in Idx(IsManifestWrite) :
       IF Len(log[i].path) > 0 /\ log[i].path[1] = "assets" THEN j < i ELSE i < j
  /\ \A i \in Idx(IsScriptStubWrite), j \in Idx(IsHtmlCssWrite) :
       IF log[i].tag \in {"backgroundScript", "contentScript"} THEN i < j
       ELSE j < i \/ log[j].tag \in {"directPopupHtml", "directOptionsHtml"}
  /\ \A i \in Idx(IsHtmlCssWrite), j \in Idx(IsBuildConfigWrite) : i < j
  /\ \A i \in Idx(IsReadmeWrite) : i = Len(log)
  /\ Succeeded =>
       /\ \E i \in Idx(IsEnsureDir) : log[i].path = <<"assets", "icons">>
       /\ \E i \in Idx(IsScriptStubWrite) : log[i].tag = "popupJs"
       /\ Idx(IsReadmeWrite) = {Len(log)}

\* a run has completed, so every kind of operation has been issued
C9_Witness ==
  /\ Succeeded
  /\ Truthy(options, "react") /\ Truthy(options, "typescript")
  /\ Written(<<"README.md">>) /\ Written(<<"tsconfig.json">>)

(* C10: when createExtension is invoked, typescript, react,               *)
(* manifestVersion and permissions all have a defined value, on every      *)
(* path through the action.                                                *)
C10_ConfigurationResolved ==
  pc = "createExtension" =>
    {"typescript", "react", "manifestVersion", "permissions"} \subseteq DOMAIN options

(* C11: the generator is deterministic: the operations a run issues, with  *)
(* their paths and contents, are determined by typescript, react,          *)
(* manifestVersion, permissions and the target path alone -- whatever the  *)
(* directory held, however the options were gathered, the run issues the   *)
(* operations of that one sequence in order (up to the first that fails),  *)
(* and a run that completes has issued all of it.                          *)
C11_Deterministic ==
  projectPath # None =>
    \A plan \in {GenerateOps(projectPath[1], Configuration(options))} :
      /\ Len(log) <= Len(plan)
      /\ \A i \in 1..Len(log) :
           /\ log[i].op = plan[i].op
           /\ log[i].path = plan[i].path
           /\ log[i].tag = plan[i].tag
           /\ log[i].data = plan[i].data
      /\ Succeeded => Len(log) = Len(plan)

\* a --skip-prompts --typescript run into a directory that held files has
\* completed
C11_Witness ==
  /\ Succeeded
  /\ SkippedPrompts /\ Truthy(options, "typescript")
  /\ Warned
  /\ Len(log) = Len(GenerateOps(projectPath[1], Configuration(options)))

(* C12: generation is idempotent: generating again with the same           *)
(* configuration into the directory a completed run has left succeeds and  *)
(* leaves exactly the same files with the same contents.                   *)
C12_Idempotent ==
  Succeeded =>
    \A outcomes \in {Run(GenerateOps(projectPath[1], options), fs, <<>>)} :
      \A again \in {outcomes[Len(outcomes)]} :
        /\ ~again.failed
        /\ again.fs = fs

\* a run into a directory holding other files has completed; the files it
\* wrote and the one it did not touch are there
C12_Witness ==
  /\ Succeeded
  /\ IsFile(fs, <<"notes.txt">>)
  /\ IsFile(fs, <<"popup.html">>) /\ fs[<<"popup.html">>].tag = "directPopupHtml"
  /\ IsDir(fs, <<"assets", "icons">>)

(* C13: source-file suffixes are a function of the configuration: the      *)
(* background and content sources below src/ are index.ts with typescript  *)
(* and index.js without; the popup and options sources below src/ are      *)
(* index.tsx (react and typescript), index.jsx (react only), index.ts      *)
(* (typescript only) or index.js (neither); and a completed run has        *)
(* written exactly one popup and one options script source below src/.     *)
C13_SourceSuffixes ==
  LET ts == Truthy(options, "typescript")
      re == Truthy(options, "react")
      plain == IF ts THEN "index.ts" ELSE "index.js"
      ui == IF re /\ ts THEN "index.tsx"
            ELSE IF re THEN "index.jsx"
            ELSE IF ts THEN "index.ts" ELSE "index.js"
  IN /\ \A dir \in {"background", "content"} : ScriptSources(dir) \subseteq {plain}
     /\ \A dir \in {"popup", "options"} : ScriptSources(dir) \subseteq {ui}
     /\ Succeeded =>
          /\ \A dir \in {"background", "content"} : ScriptSources(dir) = {plain}
          /\ \A dir \in {"popup", "options"} :
               ScriptSources(dir) = {ui} /\ Cardinality(ScriptSourceIdx(dir)) = 1

\* a react + typescript run has completed and written src/popup/index.tsx
C13_Witness ==
  /\ Succeeded
  /\ Truthy(options, "typescript") /\ Truthy(options, "react")
  /\ ScriptSources("popup") = {"index.tsx"}
  /\ ScriptSources("background") = {"index.ts"}

(* C14: package.json is written in every completed run; its dependencies   *)
(* contain react and react-dom exactly when react is selected, its         *)
(* devDependencies contain typescript, ts-loader and @types/chrome exactly *)
(* when typescript is selected, and @types/react and @types/react-dom      *)
(* exactly when both are selected.                                         *)
C14_PackageDependencies ==
  /\ Succeeded => Written(<<"package.json">>)
  /\ Written(<<"package.json">>) =>
       LET pkg == fs[<<"package.json">>].data
           ts == Truthy(options, "typescript")
           re == Truthy(options, "react")
       IN /\ \A d \in {"react", "react-dom"} : (d \in pkg.dependencies) <=> re
          /\ \A d \in {"typescript", "ts-loader", "@types/chrome"} :
               (d \in pkg.devDependencies) <=> ts
          /\ \A d \in {"@types/react", "@types/react-dom"} :
               (d \in pkg.devDependencies) <=> (ts /\ re)

\* a react-without-typescript run has completed: react is a dependency,
\* its type packages are not
C14_Witness ==
  /\ Succeeded
  /\ Truthy(options, "react") /\ ~Truthy(options, "typescript")
  /\ "react" \in fs[<<"package.json">>].data.dependencies
  /\ "@types/react" \notin fs[<<"package.json">>].data.devDependencies

(* C15: every manifest written has exactly the top-level keys name,        *)
(* description, version, manifest_version, one of action/browser_action,   *)
(* background, permissions, options_page, icons, content_scripts; icons    *)
(* maps the sizes 16, 48 and 128 to paths; content_scripts has one entry,  *)
(* matching all URLs; and options_page, icons, permissions and             *)
(* content_scripts are the same in the version-2 and the version-3         *)
(* manifest of configurations that are otherwise equal.                    *)
C15_ManifestKeys ==
  \A m \in WrittenManifests :
    /\ \E toolbar \in {"action", "browser_action"} :
         DOMAIN m = {"name", "description", "version", "manifest_version", toolbar,
                     "background", "permissions", "options_page", "icons",
                     "content_scripts"}
    /\ DOMAIN m.icons = {"16", "48", "128"}
    /\ \A size \in DOMAIN m.icons : 
         ManifestRefPath(m.icons[size]) = <<"assets", "icons", IconFile(size, "png")>>
    /\ Len(m.content_scripts) = 1
    /\ m.content_scripts[1].matches = <<"<all_urls>">>
    /\ \A mv \in {2, 3} :
         \A other \in {Manifest(projectPath[1], Spread(options, [manifestVersion |-> mv]))} :
           /\ other.manifest_version = mv
           /\ other.options_page = m.options_page
           /\ other.icons = m.icons
           /\ other.permissions = m.permissions
           /\ other.content_scripts = m.content_scripts

\* a version-3 run has completed; its manifest has the action key and the
\* three icons
C15_Witness ==
  /\ Succeeded
  /\ IsManifestV3(options)
  /\ \E m \in WrittenManifests : "action" \in DOMAIN m /\ "48" \in DOMAIN m.icons

(* C16: when a non-empty permissions list is supplied, the permissions of  *)
(* every manifest written equal that list: the same tokens in the same     *)
(* order, nothing added or removed.                                        *)
C16_PermissionsVerbatim ==
  (Has(options, "permissions") /\ options.permissions # <<>>) =>
    /\ options.permissions \in PermissionAnswers
    /\ \A m \in WrittenManifests : m.permissions = options.permissions

\* a run where only tabs was ticked has completed
C16_Witness ==
  /\ Succeeded
  /\ Has(options, "permissions") /\ options.permissions = <<"tabs">>
  /\ \E m \in WrittenManifests : m.permissions = <<"tabs">>

(* C17 as stated: with --skip-prompts no prompt is ever issued, the target *)
(* directory is the positional argument when one is given and              *)
(* my-web-extension otherwise, and generation proceeds with the flag       *)
(* values.                                                                 *)
C17_SkipPromptsUsesArgument ==
  /\ [](SkippedPrompts => (pc # "prompt" /\ questions = <<>> /\ answers = <<>>))
  /\ [][(pc = "action" /\ SkippedPrompts) =>
          /\ pc' = "createExtension"
          /\ options' = options
          /\ targetDir' = IF targetDir # None THEN targetDir ELSE Some(DefaultName)]_vars

(* C17 as amended: with --skip-prompts no prompt is ever issued, the       *)
(* target directory is the positional argument when one is given and is    *)
(* not the empty string, and my-web-extension otherwise, and generation    *)
(* proceeds with the flag values and nothing else.                         *)
C17_SkipPromptsUsesNonEmptyArgument ==
  /\ [](SkippedPrompts =>
         /\ pc # "prompt" /\ questions = <<>> /\ answers = <<>>
         /\ options \in FlagSets)
  /\ [][(pc = "action" /\ SkippedPrompts) =>
          /\ pc' = "createExtension"
          /\ options' = options
          /\ targetDir' = IF targetDir # None /\ targetDir # Some(<<>>)
                          THEN targetDir ELSE Some(DefaultName)]_vars

\* a --skip-prompts run without an argument has generated my-web-extension
C17_Witness ==
  /\ Succeeded
  /\ SkippedPrompts
  /\ targetDir = Some(DefaultName)
  /\ projectPath = Some(Cwd \o <<DefaultName>>)

(* C18: after a completed run every file the root manifest.json refers to  *)
(* exists below the project root and was written by the run: popup.html,   *)
(* options.html, background.js, content.js and assets/icons/icon16.png,    *)
(* icon48.png, icon128.png.                                                *)
C18_RootManifestRefsExist ==
  Succeeded =>
    \A refs \in {{ManifestRefPath(r) : r \in ManifestRefs(fs[<<"manifest.json">>].data)}} :
      /\ refs = {<<"popup.html">>, <<"options.html">>, <<"background.js">>, <<"content.js">>,
                 <<"assets", "icons", "icon16.png">>, <<"assets", "icons", "icon48.png">>,
                 <<"assets", "icons", "icon128.png">>}
      /\ \A p \in refs : IsFile(fs, p) /\ Written(p)

\* a typescript run into a directory that did not exist has completed and
\* the icons are below the root
C18_Witness ==
  /\ Succeeded
  /\ Truthy(options, "typescript")
  /\ ~Warned
  /\ IsFile(fs, <<"assets", "icons", "icon128.png">>)
  /\ IsFile(fs, <<"background.js">>)

(* C19: README.md is written in every completed run and the version it     *)
(* states after "Manifest V" is the manifest_version written to            *)
(* manifest.json in the same run, however the configuration was resolved.  *)
C19_ReadmeStatesManifestVersion ==
  Succeeded =>
    /\ Written(<<"README.md">>)
    /\ fs[<<"README.md">>].data.manifestV =
         DecimalText(fs[<<"manifest.json">>].data.manifest_version)

(* C20: the name of every manifest written, the name of package.json and   *)
(* the title of README.md are the basename of the resolved target          *)
(* directory, which is the project name whenever that name matches         *)
(* [A-Za-z0-9_-]+.                                                         *)
C20_NamesAreBasename ==
  projectPath # None =>
  \A names \in {{m.name : m \in WrittenManifests}
                \cup (IF Written(<<"package.json">>) THEN {fs[<<"package.json">>].data.name} ELSE {})
                \cup (IF Written(<<"README.md">>) THEN {fs[<<"README.md">>].data.title} ELSE {})} :
    /\ names \subseteq {PathBasename(projectPath[1])}
    /\ NamePatternTest(targetDir[1]) => names \subseteq {targetDir[1]}
    /\ Succeeded => names # {}

\* a run for the project a has completed: manifest, package.json and README
\* are all named a
C20_Witness ==
  /\ Succeeded
  /\ targetDir = Some(<<"a">>)
  /\ fs[<<"manifest.json">>].data.name = <<"a">>
  /\ fs[<<"package.json">>].data.name = <<"a">>
  /\ fs[<<"README.md">>].data.title = <<"a">>

(* C21: the process exits with a non-zero code exactly when a fatal error  *)
(* occurred while prompting or generating; the success message is printed  *)
(* only after every planned operation has completed, and never in a run    *)
(* that exits non-zero.                                                    *)
C21_ExitCodeAndSuccess ==
  /\ exitCode \in {0, 1}
  /\ (exitCode # 0) <=> FatalError
  /\ exitCode # 0 => pc = "done"
  /\ SuccessReported =>
       /\ exitCode = 0
       /\ Len(log) = Len(GenerateOps(projectPath[1], options))
       /\ \A i \in 1..Len(log) : Ok(log[i])
  /\ Succeeded => SuccessReported

\* the prompt was rejected: exit code 1, nothing generated, no success message
C21_Witness ==
  /\ pc = "done"
  /\ exitCode = 1
  /\ promptError = PromptRejection
  /\ log = <<>>
  /\ ~SuccessReported

(* C22 as stated: in interactive mode the project name, typescript and     *)
(* react are asked for only when the value was not given on the command    *)
(* line, the manifest version and the permissions are always asked for,    *)
(* and merging the answers leaves every value given on the command line    *)
(* as it was.                                                              *)
C22_AsksOnlyForMissing ==
  [][/\ (pc = "action" /\ pc' = "prompt") =>
          /\ Asked("projectDirectory")' <=> (targetDir = None)
          /\ Asked("typescript")' <=> ~Has(options, "typescript")
          /\ Asked("react")' <=> ~Has(options, "react")
          /\ Asked("manifestVersion")' /\ Asked("permissions")'
     /\ (pc = "prompt" /\ pc' = "createExtension") =>
          /\ \A k \in DOMAIN options : k \in DOMAIN options' /\ options'[k] = options[k]
          /\ targetDir # None => targetDir' = targetDir]_vars

(* C22 as amended: the project name is asked for when no name was given on *)
(* the command line or the name given is the empty string, and the answer  *)
(* then replaces it; typescript and react are asked for exactly when the   *)
(* flag was not given; the manifest version and the permissions are always *)
(* asked for; merging the answers leaves every flag and every non-empty    *)
(* name given on the command line as it was.                               *)
C22_AsksForMissingOrEmpty ==
  [][/\ (pc = "action" /\ pc' = "prompt") =>
          /\ Asked("projectDirectory")' <=> (targetDir = None \/ targetDir = Some(<<>>))
          /\ Asked("typescript")' <=> ~Has(options, "typescript")
          /\ Asked("react")' <=> ~Has(options, "react")
          /\ Asked("manifestVersion")' /\ Asked("permissions")'
     /\ (pc = "prompt" /\ pc' = "createExtension") =>
          /\ \A k \in DOMAIN options : k \in DOMAIN options' /\ options'[k] = options[k]
          /\ DOMAIN options' = DOMAIN options \cup {"manifestVersion", "permissions"}
                                \cup {q \in {"projectDirectory", "typescript", "react"} : Asked(q)}
          /\ (targetDir # None /\ targetDir # Some(<<>>)) => targetDir' = targetDir
          /\ Asked("projectDirectory") => targetDir' = Some(answers.projectDirectory)]_vars

\* an interactive run started with --typescript and the name a has merged
\* its answers: react was answered no, typescript and the name are as given
C22_Witness ==
  /\ pc = "createExtension"
  /\ ~SkippedPrompts
  /\ targetDir = Some(<<"a">>)
  /\ DOMAIN options = {"typescript", "react", "manifestVersion", "permissions"}
  /\ options.typescript /\ ~options.react

(* C23: popup.html and options.html below the root are written twice per   *)
(* run, the placeholder first and the direct-load page second; in every    *)
(* configuration, react included, what a completed run leaves is the       *)
(* direct-load page, which has every element id that popup.js / options.js *)
(* below the root look up (count, increment; enabled, theme, save,         *)
(* status); and those two scripts are the DOM scripts without a framework. *)
C23_DirectLoadPages ==
  /\ \A tags \in {TagsWrittenTo(<<"popup.html">>)} :
       /\ Len(tags) <= 2
       /\ \A i \in 1..Len(tags) : tags[i] = <<"popupHtml", "directPopupHtml">>[i]
       /\ Succeeded => Len(tags) = 2
  /\ \A tags \in {TagsWrittenTo(<<"options.html">>)} :
       /\ Len(tags) <= 2
       /\ \A i \in 1..Len(tags) : tags[i] = <<"optionsHtml", "directOptionsHtml">>[i]
       /\ Succeeded => Len(tags) = 2
  /\ Succeeded =>
       /\ fs[<<"popup.html">>].tag = "directPopupHtml"
       /\ fs[<<"options.html">>].tag = "directOptionsHtml"
       /\ LookedUpIds(fs[<<"popup.js">>].tag) = {"count", "increment"}
       /\ LookedUpIds(fs[<<"options.js">>].tag) = {"enabled", "theme", "save", "status"}
       /\ LookedUpIds(fs[<<"popup.js">>].tag) \subseteq ElementIds(fs[<<"popup.html">>].tag)
       /\ LookedUpIds(fs[<<"options.js">>].tag) \subseteq ElementIds(fs[<<"options.html">>].tag)
       /\ ~ImportsReact(fs[<<"popup.js">>].tag) /\ ~ImportsReact(fs[<<"options.js">>].tag)

\* a react run has completed: popup.html was written twice and is the
\* direct-load page
C23_Witness ==
  /\ Succeeded
  /\ Truthy(options, "react")
  /\ TagsWrittenTo(<<"popup.html">>) = <<"popupHtml", "directPopupHtml">>
  /\ fs[<<"popup.html">>].tag = "directPopupHtml"
  /\ Written(<<"src", "popup", "index.jsx">>)

(* C24: whenever webpack.config.js is generated, each of its four entry    *)
(* points (popup, options, background, content) names a source file that   *)
(* the same run wrote below src/, for every combination of typescript and  *)
(* react.                                                                  *)
C24_WebpackEntriesWritten ==
  Written(<<"webpack.config.js">>) =>
    \A entry \in {fs[<<"webpack.config.js">>].data} :
      /\ DOMAIN entry = {"popup", "options", "background", "content"}
      /\ \A point \in DOMAIN entry : Written(entry[point])

(* C25: whenever the package.json of a completed run declares scripts that *)
(* invoke webpack (dev, build), the same run wrote webpack.config.js.      *)
C25_BuildScriptsHaveConfig ==
  Succeeded =>
    \A scripts \in {fs[<<"package.json">>].data.scripts} :
      (\E name \in DOMAIN scripts : InvokesWebpack(scripts[name])) =>
        Written(<<"webpack.config.js">>)

(* C26: absent filesystem errors, every run of createExtension performs    *)
(* all of its steps through to writing README.md, for every combination of *)
(* typescript, react, manifestVersion and permissions -- for the           *)
(* definition at lines 130-167 as for the one at lines 865-902.            *)
C26_RunsThroughToReadme ==
  (pc = "done" /\ ~FatalError) =>
    /\ Written(<<"README.md">>)
    /\ exitCode = 0

(* C27 as stated: every directory created and every file written during a  *)
(* run has a path inside the resolved target root; nothing outside it is   *)
(* created or modified.                                                    *)
C27_NothingOutsideRoot ==
  projectPath # None =>
    /\ \A i \in 1..Len(log) : InsideRoot(log[i].path)
    /\ CreatedAbove = {}

(* C27 as amended: every file written during a run has a path inside the   *)
(* resolved target root, and so has every directory created, except the    *)
(* missing directories between the working directory and the target root,  *)
(* which the first operation (ensuring the root) creates; no file outside  *)
(* the root is created or modified.                                        *)
C27_OnlyIntermediateDirsOutside ==
  projectPath # None =>
    /\ \A i \in 1..Len(log) :
         /\ InsideRoot(log[i].path)
         /\ IsWrite(log[i]) => Len(log[i].path) >= 1
    /\ \A d \in CreatedAbove :
         /\ Len(d) < Len(projectPath[1])
         /\ d = Prefix(projectPath[1], Len(d))
    /\ CreatedAbove # {} =>
         /\ Nested(targetDir)
         /\ log[1].op = "ensureDir" /\ log[1].path = <<>> /\ Ok(log[1])
    /\ (intermediate = "missing" /\ Len(log) > 0) => ~Ok(log[1])

\* a run for a/a has completed where a did not exist: a was created on
\* the way
C27_Witness ==
  /\ Succeeded
  /\ targetDir = Some(NestedName)
  /\ CreatedAbove = {Cwd \o << <<"a">> >>}

(* C28: every file write of a run targets a directory that an earlier      *)
(* operation of the same run ensured exists (the target root, src/ and its *)
(* subdirectories, scripts/, assets/icons/): no write is issued before its *)
(* parent directory has been created.                                      *)
C28_ParentEnsuredBeforeWrite ==
  \A i \in 1..Len(log) :
    IsWrite(log[i]) =>
      \E j \in 1..(i - 1) :
        /\ log[j].op = "ensureDir"
        /\ Ok(log[j])
        /\ log[j].path = Parent(log[i].path)

\* a run has completed and written the icons below assets/icons
C28_Witness ==
  /\ Succeeded
  /\ ~Warned
  /\ Written(<<"assets", "icons", "icon16.svg">>)
  /\ Written(<<"scripts", "setup-instructions.js">>)

(* C29: in the popup counter script, after any n clicks on the increment   *)
(* button, the get and set callbacks of the clicks interleaving in any     *)
(* order, the stored count is its value before the clicks plus n: no       *)
(* click's increment is lost.                                              *)
C29_NoLostIncrement ==
  (\A k \in 1..Len(handlers) : handlers[k].phase = "done") =>
    CountOrZero(stored) = countBefore + Len(handlers)

(* C30: every message the popup and the content script send to the         *)
(* background script (POPUP_OPENED, CONTENT_LOADED) is answered by the     *)
(* onMessage listener calling sendResponse -- its port never closes        *)
(* without a response; a GET_COUNT message is answered with the stored     *)
(* count, or 0 when none is stored.                                        *)
C30_EveryMessageAnswered ==
  \A s \in DOMAIN ports :
    /\ ports[s].type \in {"POPUP_OPENED", "CONTENT_LOADED"} => ports[s].phase # "closed"
    /\ (ports[s].type = "GET_COUNT" /\ ports[s].phase \notin {"unsent", "sent", "pending"}) =>
         /\ ports[s].phase = "answered"
         /\ ports[s].response # None
         /\ ports[s].response[1] \in 0..(countBefore + MaxClicks)

====
